---- MODULE Spec2Model ----
(***************************************************************************)
(* A model of font-kit's DirectWrite loader (src/loaders/directwrite.rs):  *)
(* the Font adapter with its lazily populated, mutex-guarded byte cache,   *)
(* the OutlineBuffer that records native outline callbacks, and the pure   *)
(* translations (glyph lookup, metrics, typographic bounds, the texture    *)
(* parameters of rasterize_glyph, and the constructors), and of the canvas *)
(* format chosen by examples/render-glyph.rs.                              *)
(***************************************************************************)
EXTENDS Integers, Sequences, FiniteSets, TLC

\* ------------------------------------------------------------------ bounds
NumThreads == 2
MaxFonts == 2
MaxCalls == 4
MaxFiles == 1
MaxEvents == 2
MaxFlushes == 2
MaxCoord == 1
MaxChar == 3
MaxGlyph == 2
MaxFaces == 2
MaxIndex == 3
MaxRaw == 1
MaxPixel == 2

Threads == 1..NumThreads
FontIds == 1..MaxFonts

\* Option::None of the cache slot; a populated slot holds the identity (>= 1)
\* of the Arc<Vec<u8>> buffer it shares.
None == 0
\* The mutex of a Font is free.
NoThread == 0

VARIABLES
    \* ---- Font and its cached_data
    origin,        \* origin[f]: "none" (not constructed), "native", "bytes", "clone"
    cached_data,   \* cached_data[f]: None or the identity of the cached buffer
    lock,          \* lock[f]: the thread holding the Mutex of cached_data, or NoThread
    poisoned,      \* poisoned[f]: a guard of that Mutex was dropped by a panic
    pc,            \* pc[t]: where thread t stands
    self,          \* self[t]: the Font of the call thread t is in
    held,          \* held[t]: the Fonts of which t holds a live FontData view
    calls,         \* calls[t]: calls started by t (MaxCalls bounds their sum)
    nativeFiles,   \* number of files backing the shared native font face
    nextBuf,       \* identity of the next buffer get_font_file_bytes allocates
    getFilesCalls, \* getFilesCalls[f]: get_files() calls made by font_data on f
    getBytesCalls, \* getBytesCalls[f]: get_font_file_bytes() calls made on f
    returned,      \* returned[f]: results of the completed font_data calls on f
    completed      \* completed[f]: number of completed font_data calls on f

VARIABLES
    \* ---- OutlineBuffer
    path_events,   \* the Vec<PathEvent> behind the Arc<Mutex<..>>
    olock,         \* "free", or "flush" while flush holds the mutex
    draining,      \* the events the Drain iterator of flush has yet to yield
    delivered,     \* every event path_builder.path_event received, in order
    fed,           \* every native callback delivered, in order
    appended,      \* every PathEvent pushed, in order
    flushes,       \* flush calls started
    justFlushed    \* TRUE from the return of a flush to the next callback

VARIABLES
    \* ---- the calls of the pure translations: the inputs the native engine
    \* and the caller supply, and the result of the last call
    input,         \* the native data and the arguments of the operation
    output         \* what the last call returned

fontVars == <<origin, cached_data, lock, poisoned, pc, self, held, calls, nativeFiles,
              nextBuf, getFilesCalls, getBytesCalls, returned, completed>>
outlineVars == <<path_events, olock, draining, delivered, fed, appended,
                 flushes, justFlushed>>
callVars == <<input, output>>
vars == <<fontVars, outlineVars, callVars>>

\* ------------------------------------------------------------ Font, cache

\* Font::from_native_font: the cache slot starts empty.
from_native_font == None

\* font_data, line 196: `if font_data.is_none()`.
NeedsPopulateAlways(slot) == TRUE
NeedsPopulate(slot) == slot = None

\* font_data, line 199: `if let Some(file) = files.get(0)`.
HasFirstFileOffByOne(n) == n >= 0
HasFirstFile(n) == n > 0

\* font_data, lines 204-210: a None result drops the MutexGuard on return; a
\* Some result moves the guard into the FontData it returns.
LockAfterReturnReleased(t, slot) == NoThread
LockAfterReturn(t, slot) == IF slot = None THEN NoThread ELSE t

\* Lines 195 and 320: `self.cached_data.lock()`. std::sync::Mutex is not
\* reentrant: lock() returns only when nobody, the caller included, holds it.
LockAcquiresReentrant(t, holder) == holder \in {NoThread, t}
LockAcquires(t, holder) == holder = NoThread

Constructed(f) == origin[f] # "none"

\* font_data, line 200: `*font_data = Some(..)` writes through the guard of
\* self.cached_data, the slot of this Font alone.
StoreBytesInAll(slots, f, buf) ==
    [g \in FontIds |-> IF origin[g] # "none" THEN buf ELSE slots[g]]
StoreBytes(slots, f, buf) == [slots EXCEPT ![f] = buf]

\* clone, line 320: the new Mutex holds a clone of the Option<Arc<..>> in the
\* original's slot: None stays None, Some shares the same buffer.
CloneSlot(slot) == slot

RECURSIVE SumTo(_, _)
SumTo(c, n) == IF n = 0 THEN 0 ELSE c[n] + SumTo(c, n - 1)
CallsStarted == SumTo(calls, NumThreads)

FontStart ==
    /\ nativeFiles \in 0..MaxFiles
    /\ \E o \in {"native", "bytes"} :
          /\ origin = [f \in FontIds |-> IF f = 1 THEN o ELSE "none"]
          \* from_bytes (line 48) stores the caller's buffer, identity 1
          /\ cached_data = [f \in FontIds |->
                              IF f = 1 /\ o = "bytes" THEN 1 ELSE from_native_font]
          \* a face made from one in-memory file is backed by that file
          /\ (o = "bytes" => nativeFiles = 1)
    /\ lock = [f \in FontIds |-> NoThread]
    /\ poisoned = [f \in FontIds |-> FALSE]
    /\ pc = [t \in Threads |-> "idle"]
    /\ self = [t \in Threads |-> 1]
    /\ held = [t \in Threads |-> {}]
    /\ calls = [t \in Threads |-> 0]
    /\ nextBuf = 2
    /\ getFilesCalls = [f \in FontIds |-> 0]
    /\ getBytesCalls = [f \in FontIds |-> 0]
    /\ returned = [f \in FontIds |-> {}]
    /\ completed = [f \in FontIds |-> 0]

\* A thread calls font_data on a constructed Font (line 194).
CallFontData(t, f) ==
    /\ pc[t] = "idle"
    /\ CallsStarted < MaxCalls
    /\ Constructed(f)
    /\ pc' = [pc EXCEPT ![t] = "lock"]
    /\ self' = [self EXCEPT ![t] = f]
    /\ calls' = [calls EXCEPT ![t] = @ + 1]
    /\ UNCHANGED <<outlineVars, callVars>>
    /\ UNCHANGED <<origin, cached_data, lock, poisoned, held, nativeFiles, nextBuf,
                   getFilesCalls, getBytesCalls, returned, completed>>

\* Line 195-196: cached_data.lock() blocks until the mutex is free, then the
\* slot is tested under the lock.
FontDataLock(t) ==
    /\ pc[t] = "lock"
    /\ LockAcquires(t, lock[self[t]])
    /\ ~poisoned[self[t]]
    /\ lock' = [lock EXCEPT ![self[t]] = t]
    /\ pc' = [pc EXCEPT ![t] =
                IF NeedsPopulate(cached_data[self[t]]) THEN "get_files" ELSE "ret"]
    /\ UNCHANGED <<outlineVars, callVars>>
    /\ UNCHANGED <<origin, cached_data, poisoned, self, held, calls, nativeFiles, nextBuf,
                   getFilesCalls, getBytesCalls, returned, completed>>

\* Line 197-199: the native get_files() call and the test of files.get(0).
FontDataGetFiles(t) ==
    /\ pc[t] = "get_files"
    /\ getFilesCalls' = [getFilesCalls EXCEPT ![self[t]] = @ + 1]
    /\ pc' = [pc EXCEPT ![t] =
                IF HasFirstFile(nativeFiles) THEN "get_bytes" ELSE "ret"]
    /\ UNCHANGED <<outlineVars, callVars>>
    /\ UNCHANGED <<origin, cached_data, lock, poisoned, self, held, calls, nativeFiles,
                   nextBuf, getBytesCalls, returned, completed>>

\* Line 200: the native get_font_file_bytes() call; its result, a new
\* Arc<Vec<u8>>, is stored in the slot.
FontDataGetBytes(t) ==
    /\ pc[t] = "get_bytes"
    /\ getBytesCalls' = [getBytesCalls EXCEPT ![self[t]] = @ + 1]
    /\ cached_data' = StoreBytes(cached_data, self[t], nextBuf)
    /\ nextBuf' = nextBuf + 1
    /\ pc' = [pc EXCEPT ![t] = "ret"]
    /\ UNCHANGED <<outlineVars, callVars>>
    /\ UNCHANGED <<origin, lock, poisoned, self, held, calls, nativeFiles,
                   getFilesCalls, returned, completed>>

\* Lines 204-211: None, or Some(FontData { font_data }) which keeps the guard.
FontDataReturn(t) ==
    LET f == self[t]
        slot == cached_data[f]
    IN  /\ pc[t] = "ret"
        /\ lock' = [lock EXCEPT ![f] = LockAfterReturn(t, slot)]
        /\ held' = [held EXCEPT ![t] = IF slot = None THEN @ ELSE @ \cup {f}]
        /\ returned' = [returned EXCEPT ![f] = @ \cup {slot}]
        /\ completed' = [completed EXCEPT ![f] = @ + 1]
        /\ pc' = [pc EXCEPT ![t] = "idle"]
        /\ UNCHANGED <<outlineVars, callVars>>
        /\ UNCHANGED <<origin, cached_data, poisoned, self, calls, nativeFiles, nextBuf,
                       getFilesCalls, getBytesCalls>>

\* The caller drops a FontData (lines 428-430): its MutexGuard unlocks.
DropFontData(t, f) ==
    /\ pc[t] = "idle"
    /\ f \in held[t]
    /\ held' = [held EXCEPT ![t] = @ \ {f}]
    /\ lock' = [lock EXCEPT ![f] = NoThread]
    /\ UNCHANGED <<outlineVars, callVars>>
    /\ UNCHANGED <<origin, cached_data, poisoned, pc, self, calls, nativeFiles, nextBuf,
                   getFilesCalls, getBytesCalls, returned, completed>>

\* A thread calls clone on a constructed Font (line 317).
CallClone(t, f) ==
    /\ pc[t] = "idle"
    /\ CallsStarted < MaxCalls
    /\ Constructed(f)
    \* the model has room for the new Font of every clone under way
    /\ Cardinality({g \in FontIds : ~Constructed(g)})
          > Cardinality({u \in Threads : pc[u] = "clone"})
    /\ pc' = [pc EXCEPT ![t] = "clone"]
    /\ self' = [self EXCEPT ![t] = f]
    /\ calls' = [calls EXCEPT ![t] = @ + 1]
    /\ UNCHANGED <<outlineVars, callVars>>
    /\ UNCHANGED <<origin, cached_data, lock, poisoned, held, nativeFiles, nextBuf,
                   getFilesCalls, getBytesCalls, returned, completed>>

\* Lines 318-321: the slot is copied under the lock (a temporary guard, dropped
\* at the end of the statement) into a new Mutex; the native face is shared.
CloneFont(t) ==
    /\ pc[t] = "clone"
    /\ LockAcquires(t, lock[self[t]])
    /\ ~poisoned[self[t]]
    /\ \E g \in FontIds :
          /\ ~Constructed(g)
          /\ \A h \in FontIds : ~Constructed(h) => g <= h
          /\ origin' = [origin EXCEPT ![g] = "clone"]
          /\ cached_data' = [cached_data EXCEPT ![g] = CloneSlot(cached_data[self[t]])]
    /\ pc' = [pc EXCEPT ![t] = "idle"]
    /\ UNCHANGED <<outlineVars, callVars>>
    /\ UNCHANGED <<lock, poisoned, self, held, calls, nativeFiles, nextBuf,
                   getFilesCalls, getBytesCalls, returned, completed>>

\* A panic unwinds the stack of thread t: every FontData it holds is dropped
\* (lines 428-430), and a MutexGuard dropped while panicking unlocks and
\* poisons its Mutex. The thread is gone.
Unwind(t) ==
    /\ pc' = [pc EXCEPT ![t] = "panicked"]
    /\ held' = [held EXCEPT ![t] = {}]
    /\ lock' = [f \in FontIds |-> IF f \in held[t] THEN NoThread ELSE lock[f]]
    /\ poisoned' = [f \in FontIds |-> poisoned[f] \/ f \in held[t]]
    /\ UNCHANGED <<outlineVars, callVars>>
    /\ UNCHANGED <<origin, cached_data, self, calls, nativeFiles, nextBuf,
                   getFilesCalls, getBytesCalls, returned, completed>>

\* Lines 195 and 320, lock() called by the thread that holds the Mutex: the
\* call never returns; it blocks for ever (no step) or panics (this step).
RelockPanics(t) ==
    /\ pc[t] \in {"lock", "clone"}
    /\ lock[self[t]] = t
    /\ Unwind(t)

\* Lines 195 and 320, `.unwrap()` of lock() on a poisoned Mutex: lock() takes
\* the free Mutex and returns Err(PoisonError), unwrap panics and the guard
\* inside the error is dropped again.
LockPoisoned(t) ==
    /\ pc[t] \in {"lock", "clone"}
    /\ LockAcquires(t, lock[self[t]])
    /\ poisoned[self[t]]
    /\ Unwind(t)

FontNext ==
    \E t \in Threads :
        \/ \E f \in FontIds : CallFontData(t, f)
        \/ FontDataLock(t)
        \/ FontDataGetFiles(t)
        \/ FontDataGetBytes(t)
        \/ FontDataReturn(t)
        \/ \E f \in FontIds : DropFontData(t, f)
        \/ \E f \in FontIds : CallClone(t, f)
        \/ CloneFont(t)
        \/ RelockPanics(t)
        \/ LockPoisoned(t)

\* ---------------------------------------------------------- OutlineBuffer

\* Coordinates the native outline callbacks deliver. curve_to takes three
\* points, drawn from two with every x and y different from the others' sign.
Coords == (0 - MaxCoord)..MaxCoord
CurvePoints == {<<0, MaxCoord>>, <<MaxCoord, 0 - MaxCoord>>}

\* A PathEvent is <<kind, points>>, a point is <<x, y>>.
\* Lines 462, 465, 469-471: Point2D::new(x, -y).
FlipNoNegate(x, y) == <<x, y>>
Flip(x, y) == <<x, 0 - y>>

\* Lines 461-463.
move_to(x, y) == <<"MoveTo", <<Flip(x, y)>>>>
\* Lines 464-467.
line_to(x, y) == <<"LineTo", <<Flip(x, y)>>>>
\* Lines 468-473.
curve_to(cp0x, cp0y, cp1x, cp1y, x, y) ==
    <<"CubicTo", <<Flip(cp0x, cp0y), Flip(cp1x, cp1y), Flip(x, y)>>>>
\* Lines 474-476.
close == <<"Close", <<>>>>

\* Line 448: OutlineBuffer::new().
OutlineStart ==
    /\ path_events = <<>>
    /\ olock = "free"
    /\ draining = <<>>
    /\ delivered = <<>>
    /\ fed = <<>>
    /\ appended = <<>>
    /\ flushes = 0
    /\ justFlushed = FALSE

\* `self.path_events.lock().unwrap().push(e)`: the guard is a temporary of the
\* statement, so the mutex is taken, the event pushed and the mutex released in
\* one step, which can only happen while the mutex is free.
Push(cb, e) ==
    /\ path_events' = Append(path_events, e)
    /\ fed' = Append(fed, cb)
    /\ appended' = Append(appended, e)
    /\ justFlushed' = FALSE
    /\ UNCHANGED <<olock, draining, delivered, flushes>>
    /\ UNCHANGED <<fontVars, callVars>>

\* The native engine may call back while the mutex is free.
CanCallBack == olock = "free" /\ Len(fed) < MaxEvents

MoveTo ==
    /\ CanCallBack
    /\ \E x, y \in Coords : Push(<<"move_to", <<x, y>>>>, move_to(x, y))

LineTo ==
    /\ CanCallBack
    /\ \E x, y \in Coords : Push(<<"line_to", <<x, y>>>>, line_to(x, y))

CurveTo ==
    /\ CanCallBack
    /\ \E cp0, cp1, p \in CurvePoints :
          Push(<<"curve_to", <<cp0[1], cp0[2], cp1[1], cp1[2], p[1], p[2]>>>>,
               curve_to(cp0[1], cp0[2], cp1[1], cp1[2], p[1], p[2]))

Close ==
    /\ CanCallBack
    /\ Push(<<"close", <<>>>>, close)

\* Line 454: path_events.drain(..) takes every element out of the Vec, whose
\* length is 0 from the moment the Drain is made.
DrainKeeps(events) == events
DrainLeaves(events) == <<>>

\* Line 454: the Drain yields from the front.
NextDrained(d) == 1

\* Lines 453-454: flush locks the mutex and starts to drain.
FlushLock ==
    /\ olock = "free"
    /\ flushes < MaxFlushes
    /\ olock' = "flush"
    /\ flushes' = flushes + 1
    /\ draining' = path_events
    /\ path_events' = DrainLeaves(path_events)
    /\ UNCHANGED <<delivered, fed, appended, justFlushed>>
    /\ UNCHANGED <<fontVars, callVars>>

\* Line 455: path_builder.path_event(path_event), once per drained event.
FlushDeliver ==
    /\ olock = "flush"
    /\ draining # <<>>
    /\ LET i == NextDrained(draining)
       IN  /\ delivered' = Append(delivered, draining[i])
           /\ draining' = SubSeq(draining, 1, i - 1) \o SubSeq(draining, i + 1, Len(draining))
    /\ UNCHANGED <<path_events, olock, fed, appended, flushes, justFlushed>>
    /\ UNCHANGED <<fontVars, callVars>>

\* Line 457: the loop is over, the guard is dropped, flush returns.
FlushReturn ==
    /\ olock = "flush"
    /\ draining = <<>>
    /\ olock' = "free"
    /\ justFlushed' = TRUE
    /\ UNCHANGED <<path_events, draining, delivered, fed, appended, flushes>>
    /\ UNCHANGED <<fontVars, callVars>>

OutlineNext ==
    \/ MoveTo
    \/ LineTo
    \/ CurveTo
    \/ Close
    \/ FlushLock
    \/ FlushDeliver
    \/ FlushReturn

\* ------------------------------------------------- results of the calls
NotCalled == <<"-", 0>>
\* Option<u32>
NoneOpt == <<"None", 0>>
SomeOf(v) == <<"Some", v>>

\* ---------------------------------------------------------- glyph_for_char
\* Code points, and the glyph ids of the font. The native cmap lookup gives
\* glyph index 0 for a code point the font does not map.
Chars == 1..MaxChar
GlyphIndices == 0..MaxGlyph

\* Line 130: dwrite_font_face.get_glyph_indices(&chars), one index for each
\* code point passed.
get_glyph_indices(cmap, chars) == [i \in 1..Len(chars) |-> cmap[chars[i]]]

\* Lines 128-131: `.into_iter().next().map(|g| g as u32)`.
glyph_for_char(cmap, character) ==
    LET chars == <<character>>
        glyphs == get_glyph_indices(cmap, chars)
    IN  IF Len(glyphs) = 0 THEN NoneOpt ELSE SomeOf(glyphs[1])

GlyphStart ==
    /\ \E cmap \in [Chars -> GlyphIndices] : input = [cmap |-> cmap, character |-> 0]
    /\ output = NotCalled

GlyphForChar ==
    /\ \E c \in Chars :
          /\ input' = [input EXCEPT !.character = c]
          /\ output' = glyph_for_char(input.cmap, c)
    /\ UNCHANGED <<fontVars, outlineVars>>

\* ------------------------------------------ from_bytes, from_file, analyze
\* The font image is known by the number of faces the native engine finds in
\* it: 0 when it is no font the engine recognizes (line 74).
FaceCounts == 0..MaxFaces
FontIndices == 0..MaxIndex

\* Line 44: DWriteFontFile::new_from_data(..), None for unrecognized bytes.
new_from_data(faces) == IF faces = 0 THEN "None" ELSE "Some"

\* Line 45: font_file.create_face(font_index, 0) hands back a face, not a
\* Result. For an index the image does not hold, the call either does not
\* return (it panics) or returns a face object: whenBad is which.
create_face(faces, font_index, whenBad) ==
    IF font_index < faces THEN "face" ELSE whenBad

\* Lines 43-50.
from_bytes(faces, font_index, whenBad) ==
    IF new_from_data(faces) = "None" THEN <<"Err", 0>>
    ELSE IF create_face(faces, font_index, whenBad) = "panic" THEN <<"panic", 0>>
    ELSE <<"Ok", font_index>>

\* Lines 52-57: seek to the start, read to the end, then from_bytes.
from_file(seek_ok, read_ok, faces, font_index, whenBad) ==
    IF ~seek_ok THEN <<"Err", 0>>
    ELSE IF ~read_ok THEN <<"Err", 0>>
    ELSE from_bytes(faces, font_index, whenBad)

\* Lines 72-78.
analyze_bytes(faces) ==
    IF faces = 0 THEN <<"Err", 0>>
    ELSE IF faces = 1 THEN <<"Single", 0>>
    ELSE <<"Collection", faces>>

LoadStart ==
    /\ input = [op |-> "-", faces |-> 0, font_index |-> 0, whenBad |-> "face",
                seek_ok |-> TRUE, read_ok |-> TRUE]
    /\ output = NotCalled

FromBytes ==
    /\ \E faces \in FaceCounts, font_index \in FontIndices, whenBad \in {"panic", "face"} :
          /\ input' = [op |-> "from_bytes", faces |-> faces, font_index |-> font_index,
                       whenBad |-> whenBad, seek_ok |-> TRUE, read_ok |-> TRUE]
          /\ output' = from_bytes(faces, font_index, whenBad)
    /\ UNCHANGED <<fontVars, outlineVars>>

FromFile ==
    /\ \E faces \in FaceCounts, font_index \in FontIndices, whenBad \in {"panic", "face"},
          seek_ok \in BOOLEAN, read_ok \in BOOLEAN :
          /\ input' = [op |-> "from_file", faces |-> faces, font_index |-> font_index,
                       whenBad |-> whenBad, seek_ok |-> seek_ok, read_ok |-> read_ok]
          /\ output' = from_file(seek_ok, read_ok, faces, font_index, whenBad)
    /\ UNCHANGED <<fontVars, outlineVars>>

AnalyzeBytes ==
    /\ \E faces \in FaceCounts :
          /\ input' = [op |-> "analyze_bytes", faces |-> faces, font_index |-> 0,
                       whenBad |-> "face", seek_ok |-> TRUE, read_ok |-> TRUE]
          /\ output' = analyze_bytes(faces)
    /\ UNCHANGED <<fontVars, outlineVars>>

\* ------------------------------------------------------ machine numbers
\* A number n is held as <<q, r>> with n = q * 2^16 + r and 0 <= r < 2^16, so
\* that every u32, every i32 and every sum of a few of them is exact.
W16 == 2^16
Big(v) == <<v \div W16, v % W16>>
BigNorm(q, r) == <<q + (r \div W16), r % W16>>
BigAdd(a, b) == BigNorm(a[1] + b[1], a[2] + b[2])
BigSub(a, b) == BigNorm(a[1] - b[1], a[2] - b[2])
BigNeg(a) == BigSub(<<0, 0>>, a)
BigLeqZero(a) == a[1] < 0 \/ a = <<0, 0>>

U16Max == 2^16 - 1
I16Min == 0 - 2^15
I16Max == 2^15 - 1
U32Max == <<W16 - 1, W16 - 1>>
I32Min == <<0 - 2^15, 0>>
I32Max == <<2^15 - 1, W16 - 1>>

InI32(a) == a[1] >= 0 - 2^15 /\ a[1] < 2^15
\* `as i32`, and the result of wrapping i32 arithmetic: the low 32 bits.
WrapI32(a) == <<((a[1] + 2^15) % W16) - 2^15, a[2]>>

\* The result of an i32 `+` or `-` whose exact value is s: on overflow a build
\* with overflow checks (debug) panics, one without (release) wraps.
Panicked == <<"panic", <<0, 0>>>>
I32Result(build, s) ==
    IF InI32(s) THEN <<"ok", s>>
    ELSE IF build = "debug" THEN Panicked
    ELSE <<"ok", WrapI32(s)>>
i32_add(build, a, b) ==
    IF a[1] = "panic" \/ b[1] = "panic" THEN Panicked
    ELSE I32Result(build, BigAdd(a[2], b[2]))
i32_sub(build, a, b) ==
    IF a[1] = "panic" \/ b[1] = "panic" THEN Panicked
    ELSE I32Result(build, BigSub(a[2], b[2]))

\* `as f32` of an integer: rounded to 24 significant bits, ties to even. e is
\* the exponent of the unit in the last place, at most 8 for these widths.
F32Exp(q) == CHOOSE e \in 0..8 :
                /\ 0 - 2^(8 + e) <= q /\ q < 2^(8 + e)
                /\ \A d \in 0..8 : (0 - 2^(8 + d) <= q /\ q < 2^(8 + d)) => e <= d
AsF32(a) ==
    LET ulp == 2^F32Exp(a[1])
        k == a[2] \div ulp
        rem == a[2] % ulp
        up == (2 * rem > ulp) \/ (2 * rem = ulp /\ k % 2 = 1)
    IN  BigNorm(a[1], (IF up THEN k + 1 ELSE k) * ulp)

\* ------------------------------------------------------------------ metrics
\* DWRITE_FONT_METRICS: lineGap and underlinePosition are signed 16-bit, the
\* other fields, descent among them, unsigned 16-bit.
U16Samples == (0..MaxRaw) \cup {U16Max}
I16Samples == ((0 - MaxRaw)..MaxRaw) \cup {I16Min, I16Max}

\* Line 185: the unary minus of `-(dwrite_metrics.descent as f32)`.
NegF32Dropped(a) == a
NegF32(a) == BigNeg(a)

\* Lines 179-192.
metrics(dm) ==
    [called |-> TRUE,
     units_per_em |-> dm.designUnitsPerEm,
     ascent |-> AsF32(Big(dm.ascent)),
     descent |-> NegF32(AsF32(Big(dm.descent))),
     line_gap |-> AsF32(Big(dm.lineGap)),
     cap_height |-> AsF32(Big(dm.capHeight)),
     x_height |-> AsF32(Big(dm.xHeight)),
     underline_position |-> AsF32(Big(dm.underlinePosition)),
     underline_thickness |-> AsF32(Big(dm.underlineThickness))]

MetricsStart ==
    /\ \E upem, asc, desc, cap, xh, ut \in U16Samples : \E gap, up \in I16Samples :
          input = [designUnitsPerEm |-> upem, ascent |-> asc, descent |-> desc,
                   lineGap |-> gap, capHeight |-> cap, xHeight |-> xh,
                   underlinePosition |-> up, underlineThickness |-> ut]
    /\ output = [called |-> FALSE, units_per_em |-> 0, ascent |-> <<0, 0>>,
                 descent |-> <<0, 0>>, line_gap |-> <<0, 0>>, cap_height |-> <<0, 0>>,
                 x_height |-> <<0, 0>>, underline_position |-> <<0, 0>>,
                 underline_thickness |-> <<0, 0>>]

Metrics ==
    /\ output' = metrics(input)
    /\ UNCHANGED <<input, fontVars, outlineVars>>

\* ------------------------------------------------------ typographic_bounds
\* DWRITE_GLYPH_METRICS: advanceWidth and advanceHeight are unsigned 32-bit,
\* the side bearings and verticalOriginY signed 32-bit.
U32Samples == {Big(v) : v \in 0..MaxRaw} \cup {U32Max}
I32Samples == {Big(v) : v \in (0 - MaxRaw)..MaxRaw} \cup {I32Min, I32Max}
Builds == {"debug", "release"}

\* Lines 148-166. The `as i32` of lines 152-158 keep the low 32 bits.
typographic_bounds(gm, build) ==
    LET advance_width == <<"ok", WrapI32(gm.advanceWidth)>>
        advance_height == <<"ok", WrapI32(gm.advanceHeight)>>
        left_side_bearing == <<"ok", WrapI32(gm.leftSideBearing)>>
        right_side_bearing == <<"ok", WrapI32(gm.rightSideBearing)>>
        top_side_bearing == <<"ok", WrapI32(gm.topSideBearing)>>
        bottom_side_bearing == <<"ok", WrapI32(gm.bottomSideBearing)>>
        vertical_origin_y == <<"ok", WrapI32(gm.verticalOriginY)>>
        y_offset == i32_sub(build,
                            i32_add(build, vertical_origin_y, bottom_side_bearing),
                            advance_height)
        width == i32_sub(build, advance_width,
                         i32_add(build, left_side_bearing, right_side_bearing))
        height == i32_sub(build, advance_height,
                          i32_add(build, top_side_bearing, bottom_side_bearing))
    IN  IF y_offset[1] = "panic" \/ width[1] = "panic" \/ height[1] = "panic"
        THEN [status |-> "panic", x |-> <<0, 0>>, y |-> <<0, 0>>,
              width |-> <<0, 0>>, height |-> <<0, 0>>]
        ELSE [status |-> "rect",
              x |-> AsF32(left_side_bearing[2]), y |-> AsF32(y_offset[2]),
              width |-> AsF32(width[2]), height |-> AsF32(height[2])]

BoundsStart ==
    /\ \E aw, ah \in U32Samples : \E l, r, t, b, vo \in I32Samples : \E build \in Builds :
          input = [advanceWidth |-> aw, advanceHeight |-> ah, leftSideBearing |-> l,
                   rightSideBearing |-> r, topSideBearing |-> t,
                   bottomSideBearing |-> b, verticalOriginY |-> vo, build |-> build]
    /\ output = [status |-> "-", x |-> <<0, 0>>, y |-> <<0, 0>>,
                 width |-> <<0, 0>>, height |-> <<0, 0>>]

TypographicBounds ==
    /\ output' = typographic_bounds(input, input.build)
    /\ UNCHANGED <<input, fontVars, outlineVars>>

\* ---------------------------------------------------------- rasterize_glyph
RasterizationOptions == {"Bilevel", "GrayscaleAa", "SubpixelAa"}
Pixels == 0..MaxPixel

\* Lines 244-249.
TextureTypeGrayAliased(rasterization_options) ==
    IF rasterization_options \in {"Bilevel", "GrayscaleAa"}
    THEN "DWRITE_TEXTURE_ALIASED_1x1" ELSE "DWRITE_TEXTURE_CLEARTYPE_3x1"
TextureType(rasterization_options) ==
    IF rasterization_options = "Bilevel"
    THEN "DWRITE_TEXTURE_ALIASED_1x1" ELSE "DWRITE_TEXTURE_CLEARTYPE_3x1"

\* Lines 253-257.
TextureFormat(texture_type) ==
    IF texture_type = "DWRITE_TEXTURE_ALIASED_1x1" THEN "A8" ELSE "Rgb24"

\* Format::bits_per_pixel (canvas.rs): A8 is 1 byte per pixel, Rgb24 3, Rgba32 4.
bits_per_pixel(format) ==
    CASE format = "A8" -> 8
      [] format = "Rgb24" -> 24
      [] format = "Rgba32" -> 32

\* Lines 297-302 (build_glyph_analysis).
RenderingMode(rasterization_options) ==
    IF rasterization_options = "Bilevel"
    THEN "DWRITE_RENDERING_MODE_ALIASED" ELSE "DWRITE_RENDERING_MODE_NATURAL"

\* Lines 231-270: the analysis, the texture bounds the native engine reports
\* for the texture type, and the arguments of canvas.blit_from.
rasterize_glyph(rasterization_options, texture_bounds) ==
    LET rendering_mode == RenderingMode(rasterization_options)
        texture_type == TextureType(rasterization_options)
        texture_format == TextureFormat(texture_type)
        texture_bits_per_pixel == bits_per_pixel(texture_format)
        texture_bytes_per_pixel == texture_bits_per_pixel \div 8
        texture_width == texture_bounds.right - texture_bounds.left
        texture_height == texture_bounds.bottom - texture_bounds.top
        texture_size == <<texture_width, texture_height>>
        texture_stride == texture_width * texture_bytes_per_pixel
    IN  [called |-> TRUE, rendering_mode |-> rendering_mode,
         texture_type |-> texture_type, texture_size |-> texture_size,
         texture_stride |-> texture_stride, texture_format |-> texture_format]

RasterStart ==
    /\ input = [rasterization_options |-> "Bilevel",
                texture_bounds |-> [left |-> 0, top |-> 0, right |-> 0, bottom |-> 0]]
    /\ output = [called |-> FALSE, rendering_mode |-> "-", texture_type |-> "-",
                 texture_size |-> <<0, 0>>, texture_stride |-> 0, texture_format |-> "-"]

\* The native engine reports a rectangle with left <= right and top <= bottom.
RasterizeGlyph ==
    /\ \E options \in RasterizationOptions : \E l, t, r, b \in Pixels :
          /\ l <= r /\ t <= b
          /\ input' = [rasterization_options |-> options,
                       texture_bounds |-> [left |-> l, top |-> t, right |-> r, bottom |-> b]]
          /\ output' = rasterize_glyph(options, input'.texture_bounds)
    /\ UNCHANGED <<fontVars, outlineVars>>

\* ------------------------------------------- examples/render-glyph.rs, main

\* The rasterization-mode flag on the command line. The three flags form one
\* ArgGroup (lines 50-51), so at most one of them is present.
ModeFlags == {"none", "grayscale", "bilevel", "subpixel"}
is_present(flag, name) == flag = name

\* Lines 73-79: (canvas_format, rasterization_options).
canvas_format_and_options(flag) ==
    IF is_present(flag, "bilevel") THEN <<"A8", "Bilevel">>
    ELSE IF is_present(flag, "subpixel") THEN <<"Rgb24", "SubpixelAa">>
    ELSE <<"A8", "GrayscaleAa">>

\* Lines 73-108: the canvas main makes (line 100) and what the rasterize_glyph
\* call of lines 103-108 hands to canvas.blit_from.
main(flag, raster_size, texture_bounds) ==
    LET canvas_format == canvas_format_and_options(flag)[1]
        rasterization_options == canvas_format_and_options(flag)[2]
        canvas == [size |-> raster_size, format |-> canvas_format]
    IN  [called |-> TRUE, canvas |-> canvas,
         rasterization_options |-> rasterization_options,
         blit_from |-> rasterize_glyph(rasterization_options, texture_bounds)]

RenderStart ==
    /\ input = [flag |-> "none", raster_size |-> <<0, 0>>,
                texture_bounds |-> [left |-> 0, top |-> 0, right |-> 0, bottom |-> 0]]
    /\ output = [called |-> FALSE, canvas |-> [size |-> <<0, 0>>, format |-> "-"],
                 rasterization_options |-> "-",
                 blit_from |-> [called |-> FALSE, rendering_mode |-> "-",
                                texture_type |-> "-", texture_size |-> <<0, 0>>,
                                texture_stride |-> 0, texture_format |-> "-"]]

\* One run of the example: a flag, the size of the raster_rect that
\* raster_bounds reported (lines 93-98) and the texture bounds the native
\* analysis reports inside rasterize_glyph.
RenderGlyph ==
    /\ \E flag \in ModeFlags : \E w, h \in Pixels : \E l, t, r, b \in Pixels :
          /\ l <= r /\ t <= b
          /\ input' = [flag |-> flag, raster_size |-> <<w, h>>,
                       texture_bounds |-> [left |-> l, top |-> t, right |-> r, bottom |-> b]]
          /\ output' = main(flag, <<w, h>>, input'.texture_bounds)
    /\ UNCHANGED <<fontVars, outlineVars>>

\* --------------------------------------------------------- specifications

\* The state of the parts a specification leaves alone.
FontParked ==
    /\ nativeFiles = 1
    /\ origin = [f \in FontIds |-> IF f = 1 THEN "native" ELSE "none"]
    /\ cached_data = [f \in FontIds |-> from_native_font]
    /\ lock = [f \in FontIds |-> NoThread]
    /\ poisoned = [f \in FontIds |-> FALSE]
    /\ pc = [t \in Threads |-> "idle"]
    /\ self = [t \in Threads |-> 1]
    /\ held = [t \in Threads |-> {}]
    /\ calls = [t \in Threads |-> 0]
    /\ nextBuf = 2
    /\ getFilesCalls = [f \in FontIds |-> 0]
    /\ getBytesCalls = [f \in FontIds |-> 0]
    /\ returned = [f \in FontIds |-> {}]
    /\ completed = [f \in FontIds |-> 0]

CallsParked ==
    /\ input = <<>>
    /\ output = <<>>

\* The Font and its cache, used by concurrent threads.
FontInit == FontStart /\ OutlineStart /\ CallsParked
SpecFont == FontInit /\ [][FontNext]_vars

\* One OutlineBuffer, its native callbacks and its flushes.
OutlineInit == FontParked /\ OutlineStart /\ CallsParked
SpecOutline == OutlineInit /\ [][OutlineNext]_vars

\* glyph_for_char on a font with some character map.
GlyphInit == FontParked /\ OutlineStart /\ GlyphStart
GlyphNext == GlyphForChar
SpecGlyph == GlyphInit /\ [][GlyphNext]_vars

\* The constructors from bytes and from a file, and analyze_bytes.
LoadInit == FontParked /\ OutlineStart /\ LoadStart
LoadNext == FromBytes \/ FromFile \/ AnalyzeBytes
SpecLoad == LoadInit /\ [][LoadNext]_vars

\* metrics of a font with some native DWRITE_FONT_METRICS.
MetricsInit == FontParked /\ OutlineStart /\ MetricsStart
MetricsNext == Metrics
SpecMetrics == MetricsInit /\ [][MetricsNext]_vars

\* typographic_bounds of a glyph with some native DWRITE_GLYPH_METRICS, in a
\* build with or without overflow checks.
BoundsInit == FontParked /\ OutlineStart /\ BoundsStart
BoundsNext == TypographicBounds
SpecBounds == BoundsInit /\ [][BoundsNext]_vars

\* rasterize_glyph up to its blit_from call.
RasterInit == FontParked /\ OutlineStart /\ RasterStart
RasterNext == RasterizeGlyph
SpecRaster == RasterInit /\ [][RasterNext]_vars

\* One run of examples/render-glyph.rs.
RenderInit == FontParked /\ OutlineStart /\ RenderStart
RenderNext == RenderGlyph
SpecRender == RenderInit /\ [][RenderNext]_vars

\* ================================================================ claims

InFontData(t, f) == self[t] = f /\ pc[t] \in {"get_files", "get_bytes", "ret"}

\* C1: for a Font made by from_native_font whose native face has at least one
\* backing file, under every interleaving of font_data calls the bytes are
\* fetched from the native face at most once, and exactly once as soon as a
\* call has returned; every call returns a view of that one buffer; and once
\* the slot is populated no step replaces it or fetches the bytes again.
C1_SinglePopulate ==
    /\ [](\A f \in FontIds :
            (origin[f] = "native" /\ nativeFiles >= 1) =>
                /\ getBytesCalls[f] <= 1
                /\ (cached_data[f] # None => getBytesCalls[f] = 1)
                /\ (returned[f] # {} =>
                      /\ cached_data[f] # None
                      /\ returned[f] = {cached_data[f]}))
    /\ [][\A f \in FontIds :
            (origin[f] = "native" /\ nativeFiles >= 1 /\ cached_data[f] # None) =>
                /\ cached_data'[f] = cached_data[f]
                /\ getBytesCalls'[f] = getBytesCalls[f]]_vars

\* C1 witness: both threads have called font_data on the native-made Font 1,
\* two calls have returned, and the bytes were fetched once.
C1_Witness ==
    /\ origin[1] = "native" /\ nativeFiles >= 1
    /\ \E t1, t2 \in Threads :
          t1 # t2 /\ calls[t1] >= 1 /\ calls[t2] >= 1 /\ pc[t1] = "idle" /\ pc[t2] = "idle"
    /\ completed[1] >= 2
    /\ getBytesCalls[1] = 1
    /\ \A g \in FontIds : g # 1 => ~Constructed(g)

\* C3 as claimed: with zero backing files, once font_data has returned None
\* every later call returns None and get_files is never queried again.
C3_NoRequery ==
    \A f \in FontIds :
        (origin[f] = "native" /\ nativeFiles = 0) =>
            /\ returned[f] \subseteq {None}
            /\ getFilesCalls[f] <= 1

\* C3 amended: with zero backing files every font_data call returns None and
\* never reads file bytes or populates the slot, but each call queries
\* get_files again: the queries made equal the calls that have passed line 197.
C3_NonePermanentRequeried ==
    \A f \in FontIds :
        (origin[f] = "native" /\ nativeFiles = 0) =>
            /\ returned[f] \subseteq {None}
            /\ cached_data[f] = None
            /\ getBytesCalls[f] = 0
            /\ getFilesCalls[f] =
                 completed[f] + Cardinality({t \in Threads : self[t] = f /\ pc[t] = "ret"})

\* C3 witness: two font_data calls on a file-less native Font have returned.
C3_Witness ==
    /\ origin[1] = "native" /\ nativeFiles = 0
    /\ completed[1] >= 2
    /\ returned[1] = {None}
    /\ getFilesCalls[1] >= 2

\* C4 as claimed: the cache lock is never held while a native call is in
\* progress, and is not held once font_data has returned.
C4_LockOnlyForStep ==
    \A t \in Threads :
        /\ (pc[t] \in {"get_files", "get_bytes"} => lock[self[t]] # t)
        /\ (pc[t] = "idle" => \A f \in FontIds : lock[f] # t)

\* C4 amended: the lock is taken on entry to font_data and held through both
\* native calls up to the return; a None return releases it, a Some return
\* leaves it held by the returned FontData until that view is dropped; nobody
\* else holds it.
C4_LockHeldThroughView ==
    \A t \in Threads : \A f \in FontIds :
        /\ (InFontData(t, f) => lock[f] = t)
        /\ (f \in held[t] => lock[f] = t)
        /\ (lock[f] = t => (InFontData(t, f) \/ f \in held[t]))
        /\ (f \in held[t] => cached_data[f] # None)

\* C4 witness: a thread holds a view of a Font whose bytes were fetched under
\* the lock, while another thread waits for that lock.
C4_Witness ==
    \E t1, t2 \in Threads : \E f \in FontIds :
        /\ t1 # t2
        /\ f \in held[t1] /\ pc[t1] = "idle" /\ lock[f] = t1
        /\ getBytesCalls[f] = 1
        /\ pc[t2] = "lock" /\ self[t2] = f

\* What C5 says of one callback cb and the event ev it appended: the kind
\* follows the callback, every point keeps its x and has its y negated, and
\* Close carries no point.
CallbackKind(op) ==
    CASE op = "move_to" -> "MoveTo"
      [] op = "line_to" -> "LineTo"
      [] op = "curve_to" -> "CubicTo"
      [] op = "close" -> "Close"

Matches(cb, ev) ==
    /\ ev[1] = CallbackKind(cb[1])
    /\ 2 * Len(ev[2]) = Len(cb[2])
    /\ \A j \in 1..Len(ev[2]) :
          /\ ev[2][j][1] = cb[2][2 * j - 1]
          /\ ev[2][j][2] + cb[2][2 * j] = 0

\* C5: every native callback appends exactly one PathEvent to the end of the
\* buffered sequence, of the callback's kind, with the same x and the negated
\* y for every point; so until a flush the buffer holds, in callback order,
\* one such event per callback.
C5_CallbackAppendsFlipped ==
    /\ [][Len(fed') = Len(fed) + 1 =>
            /\ Len(path_events') = Len(path_events) + 1
            /\ SubSeq(path_events', 1, Len(path_events)) = path_events
            /\ Matches(fed'[Len(fed')], path_events'[Len(path_events')])]_vars
    /\ [](flushes = 0 =>
            /\ Len(path_events) = Len(fed)
            /\ \A i \in 1..Len(fed) : Matches(fed[i], path_events[i]))

\* C5 witness: curve_to then close were delivered and the buffer holds the
\* cubic with all three y negated, then Close.
C5_Witness ==
    /\ flushes = 0
    /\ fed = << <<"curve_to", <<0, MaxCoord, MaxCoord, 0 - MaxCoord,
                                0, MaxCoord>> >>,
                <<"close", <<>> >> >>
    /\ path_events = << <<"CubicTo", << <<0, 0 - MaxCoord>>,
                                         <<MaxCoord, MaxCoord>>,
                                         <<0, 0 - MaxCoord>> >> >>,
                        <<"Close", <<>> >> >>

\* C6: flush drains atomically. Every event ever appended is, in append order,
\* either already delivered, or still to be yielded by the drain under way, or
\* still buffered, so each reaches the consumer exactly once and in order;
\* while a flush holds the mutex the buffer is empty and no callback is
\* delivered; when flush has returned the buffer is empty and all was
\* delivered; and with no callback in between, further flushes deliver nothing.
C6_FlushDrainsAtomically ==
    /\ [](/\ delivered \o draining \o path_events = appended
          /\ (olock = "flush" => path_events = <<>>)
          /\ (olock = "free" => draining = <<>>)
          /\ (justFlushed => (path_events = <<>> /\ delivered = appended)))
    /\ [][olock = "flush" => (fed' = fed /\ path_events' = path_events)]_vars
    /\ [][justFlushed /\ justFlushed' => delivered' = delivered]_vars

\* C6 witness: two different events were appended, a flush delivered both in
\* order, and a second flush right after it has returned too.
C6_Witness ==
    /\ justFlushed
    /\ olock = "free"
    /\ flushes = 2
    /\ Len(appended) = 2
    /\ appended[1] # appended[2]
    /\ delivered = appended
    /\ path_events = <<>>

\* C2: glyph_for_char of a character the font has no mapping for returns None,
\* never Some(0) or any other glyph id.
C2_UnmappedIsNone ==
    (output # NotCalled /\ input.cmap[input.character] = 0) => output = NoneOpt

\* C7: from_bytes and from_file return an error, and construct no Font, when
\* the bytes are no font the native engine recognizes or font_index is not
\* smaller than the number of faces of the font image.
C7_BadInputIsError ==
    (/\ output # NotCalled
     /\ input.op \in {"from_bytes", "from_file"}
     /\ (input.faces = 0 \/ input.font_index >= input.faces))
        => output[1] = "Err"

\* C8: metrics().descent is <= 0 for every font, whatever the native raw
\* descent (an unsigned 16-bit field) is.
C8_DescentNotPositive ==
    output.called => BigLeqZero(output.descent)

\* C8 witness: the largest native descent, 65535, came back as -65535.
C8_Witness ==
    /\ output.called
    /\ input.descent = U16Max
    /\ output.descent = <<0 - 1, 1>>
    /\ output.ascent = Big(input.ascent)

\* C9: for every value the native glyph metrics can take, typographic_bounds
\* returns the rectangle with x = leftBearing,
\* y = verticalOriginY + bottomBearing - advanceHeight,
\* width = advanceWidth - (leftBearing + rightBearing) and
\* height = advanceHeight - (topBearing + bottomBearing).
C9_BoundsFormula ==
    output.status # "-" =>
        /\ output.status = "rect"
        /\ output.x = input.leftSideBearing
        /\ output.y = BigSub(BigAdd(input.verticalOriginY, input.bottomSideBearing),
                             input.advanceHeight)
        /\ output.width = BigSub(input.advanceWidth,
                                 BigAdd(input.leftSideBearing, input.rightSideBearing))
        /\ output.height = BigSub(input.advanceHeight,
                                  BigAdd(input.topSideBearing, input.bottomSideBearing))

\* C10: the arguments rasterize_glyph passes to blit_from follow the options:
\* Bilevel gives the 1x1 aliased texture, A8 and stride = width; GrayscaleAa and
\* SubpixelAa the 3x1 ClearType texture, Rgb24 and stride = 3 * width; the size
\* is (right - left, bottom - top) of the texture bounds; the analysis is made
\* in aliased mode for Bilevel and natural mode otherwise.
C10_TextureFollowsOptions ==
    output.called =>
        LET opts == input.rasterization_options
            w == input.texture_bounds.right - input.texture_bounds.left
            h == input.texture_bounds.bottom - input.texture_bounds.top
        IN  /\ output.texture_size = <<w, h>>
            /\ opts = "Bilevel" =>
                  /\ output.texture_type = "DWRITE_TEXTURE_ALIASED_1x1"
                  /\ output.texture_format = "A8"
                  /\ output.texture_stride = w
                  /\ output.rendering_mode = "DWRITE_RENDERING_MODE_ALIASED"
            /\ opts \in {"GrayscaleAa", "SubpixelAa"} =>
                  /\ output.texture_type = "DWRITE_TEXTURE_CLEARTYPE_3x1"
                  /\ output.texture_format = "Rgb24"
                  /\ output.texture_stride = 3 * w
                  /\ output.rendering_mode = "DWRITE_RENDERING_MODE_NATURAL"

\* C10 witness: a GrayscaleAa glyph two pixels wide was blitted as Rgb24 with
\* a stride of six bytes.
C10_Witness ==
    /\ output.called
    /\ input.rasterization_options = "GrayscaleAa"
    /\ input.texture_bounds.right - input.texture_bounds.left = 2
    /\ output.texture_format = "Rgb24"
    /\ output.texture_stride = 6

\* C11: a clone is an independent Font. The step that completes clone makes
\* one new Font whose slot is a copy of the original's slot at that moment
\* (empty when the original's is empty), with a Mutex of its own that is free,
\* and changes no slot or lock of any existing Font. The slot of a constructed
\* Font changes only by the get_font_file_bytes step of a font_data call on
\* that very Font, which stores a fresh buffer and leaves every other slot and
\* every other lock alone. And a clone of a face that has a backing file has a
\* populated slot as soon as a font_data call on it has returned, fetched by
\* the clone itself unless it was copied populated.
C11_CloneIndependent ==
    /\ [][\A t \in Threads :
            (pc[t] = "clone" /\ pc'[t] = "idle") =>
                \E g \in FontIds :
                    /\ ~Constructed(g) /\ origin'[g] = "clone"
                    /\ cached_data'[g] = cached_data[self[t]]
                    /\ lock'[g] = NoThread
                    /\ \A h \in FontIds \ {g} :
                          /\ cached_data'[h] = cached_data[h]
                          /\ origin'[h] = origin[h]
                    /\ lock' = lock]_vars
    /\ [][\A f \in FontIds :
            (Constructed(f) /\ cached_data'[f] # cached_data[f]) =>
                /\ cached_data[f] = None
                /\ \E t \in Threads : self[t] = f /\ pc[t] = "get_bytes" /\ lock[f] = t
                /\ getBytesCalls'[f] = getBytesCalls[f] + 1
                /\ \A h \in FontIds \ {f} :
                      /\ cached_data'[h] = cached_data[h]
                      /\ cached_data'[f] # cached_data[h]
                      /\ getBytesCalls'[h] = getBytesCalls[h]
                      /\ lock'[h] = lock[h]]_vars
    /\ [](\A f \in FontIds :
            (origin[f] = "clone" /\ nativeFiles >= 1) =>
                /\ getBytesCalls[f] <= 1
                /\ (completed[f] >= 1 => cached_data[f] # None)
                /\ (getBytesCalls[f] = 1 =>
                       \A h \in FontIds \ {f} :
                          origin[h] # "clone" => cached_data[h] # cached_data[f]))

\* C11 witness: Font 2 was cloned from the native-made Font 1 while the slot
\* of Font 1 was empty (it still is); a font_data call on the clone has
\* returned, the clone fetched the bytes itself, and Font 1 is untouched.
C11_Witness ==
    /\ origin[1] = "native" /\ origin[2] = "clone"
    /\ cached_data[1] = None /\ getBytesCalls[1] = 0
    /\ completed[2] >= 1
    /\ getBytesCalls[2] = 1
    /\ cached_data[2] # None
    /\ \E t \in Threads : 2 \in held[t] /\ lock[2] = t /\ lock[1] = NoThread

\* C13: at most one FontData view of a Font is live at any time, and its
\* holder holds the Font's cache lock. While a view of a Font is live no
\* font_data call on that Font is past its lock() and none completes, and a
\* thread standing in font_data or clone on that Font stays where it is (or
\* panics), so it completes only after the view is dropped. A thread that
\* calls font_data or clone on a Font of which it holds a view itself keeps
\* the view, since it cannot drop it while it is in the call, and never
\* completes the call.
C13_OneLiveView ==
    /\ [](\A f \in FontIds :
            /\ Cardinality({t \in Threads : f \in held[t]}) <= 1
            /\ \A t \in Threads : f \in held[t] =>
                  /\ lock[f] = t
                  /\ \A u \in Threads : ~InFontData(u, f))
    /\ [][\A f \in FontIds :
            (\E t \in Threads : f \in held[t]) =>
                /\ completed'[f] = completed[f]
                /\ \A u \in Threads :
                      (self[u] = f /\ pc[u] \in {"lock", "clone"}) =>
                          pc'[u] \in {pc[u], "panicked"}]_vars
    /\ [][\A t \in Threads :
            (pc[t] \in {"lock", "clone"} /\ self[t] \in held[t]) =>
                \/ pc'[t] = "panicked"
                \/ pc'[t] = pc[t] /\ self'[t] = self[t] /\ self[t] \in held'[t]]_vars
    /\ [][\A t \in Threads : pc[t] = "panicked" => pc'[t] = "panicked"]_vars

\* C13 witness: a thread that holds a view of a Font has called font_data on
\* that Font again and stands at its lock(), while the other thread stands in
\* clone of the same Font.
C13_Witness ==
    \E t1, t2 \in Threads : \E f \in FontIds :
        /\ t1 # t2
        /\ f \in held[t1] /\ lock[f] = t1
        /\ pc[t1] = "lock" /\ self[t1] = f
        /\ pc[t2] = "clone" /\ self[t2] = f
        /\ completed[f] = 1

\* C12: in every run of the render-glyph example, whichever rasterization
\* mode flag was given, the Format of the canvas handed to rasterize_glyph
\* equals the Format rasterize_glyph passes to blit_from.
C12_CanvasFormatMatches ==
    output.called => output.blit_from.texture_format = output.canvas.format

====
